---- MODULE Spec2Model ----
(***************************************************************************)
(* Model of pace/driver/diagnostics.py: DiagnosticsConfig (validation and  *)
(* factory), MonitorDiagnostics, NullDiagnostics and the column integral.  *)
(*                                                                         *)
(* Three specifications share the module:                                  *)
(*   SpecCI     _compute_column_integral applied to bounded Quantities     *)
(*   SpecStore  one MonitorDiagnostics driven by store/store_grid/cleanup  *)
(*   Spec       DiagnosticsConfig construction and diagnostics_factory on  *)
(*              several ranks sharing one filesystem                       *)
(***************************************************************************)
EXTENDS Integers, Sequences, FiniteSets, TLC

VARIABLES
    q_in,          \* SpecCI: the tracer Quantity handed to the integral
    delp,          \* SpecCI: the pressure thickness Quantity
    asserts,       \* SpecCI: whether assert statements run (python without -O)
    ci,            \* SpecCI: outcome of _compute_column_integral
    ciPc,          \* SpecCI: "input" before the call, "done" after
    names,         \* SpecStore: MonitorDiagnostics.names
    derived_names, \* SpecStore: MonitorDiagnostics.derived_names
    monitorSeen,   \* SpecStore: methods the backend monitor has received so far
    calls,         \* SpecStore: calls the monitor received during the latest operation
    warned,        \* SpecStore: warnings emitted by the latest operation
    last,          \* SpecStore: the latest operation, its arguments and its error
    cfg,           \* Spec: <<>> or <<the DiagnosticsConfig that was constructed>>
    ctor,          \* Spec: the latest constructor call, its arguments and its error
    dirExists,     \* Spec: whether the output directory exists on the filesystem
    pc,            \* Spec: per rank, where it is in diagnostics_factory
    sawExists,     \* Spec: per rank, what fs.exists returned to it
    fsLog,         \* Spec: per rank, the filesystem calls it made
    diag,          \* Spec: per rank, the Diagnostics the factory returned
    err,           \* Spec: per rank, the error the factory raised
    nullLast       \* Spec: the latest call on a NullDiagnostics

ciVars == <<q_in, delp, asserts, ci, ciPc>>
storeVars == <<names, derived_names, monitorSeen, calls, warned, last>>
factoryVars == <<cfg, ctor, dirExists, pc, sawExists, fsLog, diag, err>>
vars == <<ciVars, storeVars, factoryVars, nullLast>>

(***************************************************************************)
(* Bounds                                                                  *)
(***************************************************************************)
MaxZ == 2          \* size of the vertical axis of the data arrays
MaxNames == 2      \* names a MonitorDiagnostics lists, `names` and `derived_names` together
NumRanks == 2      \* ranks calling diagnostics_factory on the shared path

\* sizes of the two horizontal axes of every data array
HorizontalShape == <<2, 1>>
\* sample values of tracer cells and of pressure-thickness cells
TracerValues == {0, 1, 3}
DelpValues == {1, 2}

(***************************************************************************)
(* Dimension tags (pace.util constants used at line 193)                   *)
(***************************************************************************)
X_DIM == "x"
Y_DIM == "y"
Z_DIM == "z"
Z_INTERFACE_DIM == "z_interface"

(***************************************************************************)
(* Arrays: a shape (sequence of sizes) and a function from index tuples    *)
(* (0-based, as numpy) to integers.                                        *)
(***************************************************************************)
MaxOf(s) == IF s = {} THEN 0 ELSE CHOOSE m \in s : \A x \in s : x <= m

Indices(shape) ==
    LET top == MaxOf({shape[i] : i \in 1..Len(shape)})
    IN {idx \in [1..Len(shape) -> 0..(top - 1)] :
            \A i \in 1..Len(shape) : idx[i] < shape[i]}

\* s with the element at (1-based) position p removed
RemoveAt(s, p) == [i \in 1..(Len(s) - 1) |-> IF i < p THEN s[i] ELSE s[i + 1]]

\* s with v inserted so that it sits at (1-based) position p
InsertAt(s, p, v) ==
    [i \in 1..(Len(s) + 1) |-> IF i < p THEN s[i] ELSE IF i = p THEN v ELSE s[i - 1]]

\* s[:n] of a python sequence (n may exceed the length)
Take(s, n) == SubSeq(s, 1, IF n < Len(s) THEN n ELSE Len(s))

\* s[n:] of a python sequence
Drop(s, n) == IF n >= Len(s) THEN <<>> ELSE SubSeq(s, n + 1, Len(s))

RECURSIVE SumOver(_, _)
SumOver(f, S) ==
    IF S = {} THEN 0
    ELSE LET k == CHOOSE x \in S : TRUE IN f[k] + SumOver(f, S \ {k})

(***************************************************************************)
(* pace.util.Quantity as the record of what its constructor is given.      *)
(***************************************************************************)
Quantity(data, shape, dims, origin, extent, units) ==
    [dims |-> dims, origin |-> origin, extent |-> extent, units |-> units,
     shape |-> shape, data |-> data]

NoQuantity == Quantity(<<>>, <<>>, <<>>, <<>>, <<>>, "")

\* the Quantity invariant: dims, origin and extent describe the same axes
QuantityConsistent(q) ==
    /\ Len(q.dims) = Len(q.origin)
    /\ Len(q.dims) = Len(q.extent)

(***************************************************************************)
(* _compute_column_integral (lines 181-205).  The outcome is a record      *)
(* [error, value]; error = "none" when the function returns.               *)
(***************************************************************************)
Raise(e) == [error |-> e, value |-> NoQuantity]
Return(q) == [error |-> "none", value |-> q]

\* a slice that also takes the level at origin + extent
KSliceInclusive(q) ==
    {k \in 0..(q.shape[3] - 1) : q.origin[3] <= k /\ k <= q.origin[3] + q.extent[3]}

\* k_slice (line 197) applied to axis 2: python slices clamp to the axis
KSlice(q) ==
    {k \in 0..(q.shape[3] - 1) : q.origin[3] <= k /\ k < q.origin[3] + q.extent[3]}

\* np.sum(q.data[:, :, k_slice] * delp.data[:, :, k_slice], axis=2)
ColumnSum(q, dp) ==
    [idx \in Indices(RemoveAt(q.shape, 3)) |->
        SumOver([k \in KSlice(q) |->
                    q.data[InsertAt(idx, 3, k)] * dp.data[InsertAt(idx, 3, k)]],
                KSlice(q))]

\* the function without the test of the tag of axis 2
ComputeColumnIntegralAnyAxis(name, q, dp, assertsOn) ==
    IF assertsOn /\ ~(Len(q.dims) > 2) THEN Raise("AssertionError")
    ELSE IF Len(q.dims) < 3 THEN Raise("IndexError")
    ELSE Return(Quantity(ColumnSum(q, dp),
                         RemoveAt(q.shape, 3),
                         Take(q.dims, 2) \o Drop(q.dims, 3),
                         SubSeq(q.origin, 1, 2),
                         <<q.extent[1], q.extent[2]>>,
                         "kg/m**2"))

\* line 192: the assert, and under python -O the IndexError of q_in.dims[2];
\* lines 193-196: the tag test; lines 197-205: the Quantity that is built
ComputeColumnIntegral(name, q, dp, assertsOn) ==
    IF assertsOn /\ ~(Len(q.dims) > 2) THEN Raise("AssertionError")
    ELSE IF Len(q.dims) < 3 THEN Raise("IndexError")
    ELSE IF q.dims[3] # Z_DIM THEN Raise("NotImplementedError")
    ELSE Return(Quantity(ColumnSum(q, dp),
                         RemoveAt(q.shape, 3),
                         Take(q.dims, 2) \o Drop(q.dims, 3),
                         SubSeq(q.origin, 1, 2),
                         <<q.extent[1], q.extent[2]>>,
                         "kg/m**2"))

(***************************************************************************)
(* SpecCI: the inputs are drawn in Init, one action applies the function.  *)
(***************************************************************************)
\* origin/extent pairs of the vertical axis that stay inside the array
VerticalWindows == {w \in (0..MaxZ) \X (0..MaxZ) : w[1] + w[2] <= MaxZ}

Arrays(shape, values) == [Indices(shape) -> values]

ConstantArrays(shape, values) == {[idx \in Indices(shape) |-> v] : v \in values}

Shape3 == HorizontalShape \o <<MaxZ>>
Shape4 == HorizontalShape \o <<MaxZ, 1>>

\* 3-D tracers with the vertical axis last: every cell value, every window
Tracers3D ==
    {Quantity(d, Shape3, <<X_DIM, Y_DIM, Z_DIM>>, <<0, 0, w[1]>>,
              <<HorizontalShape[1], HorizontalShape[2], w[2]>>, "kg/kg") :
        d \in Arrays(Shape3, TracerValues), w \in VerticalWindows}

\* 4-D tracers (a trailing axis of size one behind the vertical axis)
Tracers4D ==
    {Quantity(d, Shape4, <<X_DIM, Y_DIM, Z_DIM, "tracer">>, <<0, 0, w[1], 0>>,
              <<HorizontalShape[1], HorizontalShape[2], w[2], 1>>, "kg/kg") :
        d \in ConstantArrays(Shape4, TracerValues), w \in VerticalWindows}

\* tracers the function must refuse: fewer than 3 axes, or axis 2 not vertical
TracersRefused ==
    {Quantity(d, <<HorizontalShape[1], HorizontalShape[2]>>, <<X_DIM, Y_DIM>>, <<0, 0>>,
              <<HorizontalShape[1], HorizontalShape[2]>>, "Pa") :
        d \in ConstantArrays(<<HorizontalShape[1], HorizontalShape[2]>>, TracerValues)}
    \cup
    {Quantity(d, <<MaxZ>>, <<Z_DIM>>, <<0>>, <<MaxZ>>, "Pa") :
        d \in ConstantArrays(<<MaxZ>>, TracerValues)}
    \cup
    {Quantity(d, Shape3, dims, <<0, 0, 0>>, Shape3, "kg/kg") :
        d \in ConstantArrays(Shape3, TracerValues),
        dims \in {<<Z_DIM, Y_DIM, X_DIM>>, <<X_DIM, Z_DIM, Y_DIM>>,
                  <<X_DIM, Y_DIM, Z_INTERFACE_DIM>>}}

\* delp has the shape, dims and window of the tracer it is multiplied with
DelpsFor(q, pool) ==
    {Quantity(d, q.shape, q.dims, q.origin, q.extent, "Pa") : d \in pool}

CIInputs ==
    /\ \/ /\ q_in \in Tracers3D
          /\ delp \in DelpsFor(q_in, Arrays(q_in.shape, DelpValues))
       \/ /\ q_in \in Tracers4D \cup TracersRefused
          /\ delp \in DelpsFor(q_in, ConstantArrays(q_in.shape, DelpValues))
    /\ asserts \in BOOLEAN
    /\ ci = Raise("not called")
    /\ ciPc = "input"

\* the variables of SpecCI while another specification runs
CIUnused ==
    /\ q_in = NoQuantity
    /\ delp = NoQuantity
    /\ asserts = TRUE
    /\ ci = Raise("not called")
    /\ ciPc = "unused"

CallColumnIntegral ==
    /\ ciPc = "input"
    /\ ci' = ComputeColumnIntegral("column_integrated_q", q_in, delp, asserts)
    /\ ciPc' = "done"
    /\ UNCHANGED <<q_in, delp, asserts>>

NextCI == CallColumnIntegral /\ UNCHANGED <<storeVars, factoryVars, nullLast>>

(***************************************************************************)
(* DriverState, GridData and time values handed to a Diagnostics.          *)
(* A sub-state is a function from the attribute names it has to Quantities.*)
(***************************************************************************)
DataA == [idx \in Indices(Shape3) |-> idx[1] + idx[3] + 1]
DataB == [idx \in Indices(Shape3) |-> 2 * idx[3] + 3]
DataP == [idx \in Indices(Shape3) |-> idx[3] + 1]
Data2 == [idx \in Indices(HorizontalShape) |-> idx[1] + 5]

Dims3 == <<X_DIM, Y_DIM, Z_DIM>>
Full3(data, units) == Quantity(data, Shape3, Dims3, <<0, 0, 0>>, Shape3, units)
Full2(data, units) ==
    Quantity(data, HorizontalShape, <<X_DIM, Y_DIM>>, <<0, 0>>, HorizontalShape, units)

\* qv as the dycore holds it, and three shapes the integral must refuse
QvGood ==
    Quantity(DataA, Shape3, Dims3, <<0, 0, 1>>,
             <<HorizontalShape[1], HorizontalShape[2], MaxZ - 1>>, "kg/kg")
Qv2D == Full2(Data2, "kg/kg")
QvZFirst == Quantity(DataA, Shape3, <<Z_DIM, Y_DIM, X_DIM>>, <<0, 0, 0>>, Shape3, "kg/kg")
QvInterface ==
    Quantity(DataA, Shape3, <<X_DIM, Y_DIM, Z_INTERFACE_DIM>>, <<0, 0, 0>>, Shape3, "kg/kg")
Qv1D == Quantity([idx \in Indices(<<MaxZ>>) |-> 1], <<MaxZ>>, <<Z_DIM>>, <<0>>, <<MaxZ>>, "kg/kg")
QvVariants == {QvGood, Qv2D, Qv1D, QvZFirst, QvInterface}

DycoreAttr(n, qv) ==
    CASE n = "qv" -> qv
      [] n = "u" -> Full3(DataA, "m/s")
      [] n = "delp" -> Full3(DataP, "Pa")
      [] n = "time" -> Full2(Data2, "s")
      [] OTHER -> Full2(Data2, "kg/m**2")

PhysicsAttr(n) == IF n = "u" THEN Full3(DataB, "m/s") ELSE Full3(DataB, "degK")

DycoreStates ==
    {[n \in {"u", "qv", "delp"} |-> DycoreAttr(n, qv)] : qv \in QvVariants}
    \cup {[n \in {"u", "qv", "delp", "time", "column_integrated_qv"} |-> DycoreAttr(n, QvGood)],
          [n \in {"u", "qv"} |-> DycoreAttr(n, QvGood)],
          [n \in {"delp"} |-> DycoreAttr(n, QvGood)]}

DriverStates ==
    {[dycore_state |-> d, physics_state |-> [n \in {"u", "t"} |-> PhysicsAttr(n)]] :
        d \in DycoreStates}
    \cup
    {[dycore_state |-> [n \in a |-> DycoreAttr(n, QvGood)],
      physics_state |-> [n \in {} |-> PhysicsAttr(n)]] : a \in {{"u", "qv", "delp"}, {"delp"}}}

\* Union[datetime, timedelta]
Times == {[type |-> "datetime", value |-> 7], [type |-> "timedelta", value |-> 7]}

Grids == {[lat |-> Full2(Data2, "radians"),
           lon |-> Full2([idx \in Indices(HorizontalShape) |-> g], "radians")] : g \in {0, 1}}

NoState == [dycore_state |-> [n \in {} |-> NoQuantity], physics_state |-> [n \in {} |-> NoQuantity]]
NoTime == [type |-> "", value |-> 0]
NoGrid == [lat |-> NoQuantity, lon |-> NoQuantity]

(***************************************************************************)
(* Names a configuration may list.                                         *)
(***************************************************************************)
Prefix == "column_integrated_"

\* what may follow the prefix in a name of the universes below
Suffixes == {"", "qv"}

RawNames == {"u", "t", "time", "column_integrated_qv", "w"}
DerivedNames == {"column_integrated_qv", "column_integrated_", "column_integrated", "u"}

SeqsUpTo(S, n) == UNION {[1..k -> S] : k \in 0..n}

\* a test for the prefix without its last character
StartsWithStem(name) ==
    name = "column_integrated" \/ \E s \in Suffixes : name = Prefix \o s

\* name.startswith("column_integrated_")
StartsWithPrefix(name) == \E s \in Suffixes : name = Prefix \o s

\* name[len("column_integrated_"):]; the other names of the universes are
\* shorter than the prefix, and their slice is the empty string
StripPrefix(name) ==
    IF \E s \in Suffixes : name = Prefix \o s
    THEN CHOOSE s \in Suffixes : name = Prefix \o s
    ELSE ""

(***************************************************************************)
(* MonitorDiagnostics.store (lines 129-140)                                *)
(***************************************************************************)
\* the two sub-states asked in the other order
LookupPhysicsFirst(state, name) ==
    IF name \in DOMAIN state.physics_state
    THEN [error |-> "none", value |-> state.physics_state[name]]
    ELSE IF name \in DOMAIN state.dycore_state
    THEN [error |-> "none", value |-> state.dycore_state[name]]
    ELSE [error |-> "AttributeError", value |-> NoQuantity]

\* lines 133-136: getattr on dycore_state, on AttributeError on physics_state
Lookup(state, name) ==
    IF name \in DOMAIN state.dycore_state
    THEN [error |-> "none", value |-> state.dycore_state[name]]
    ELSE IF name \in DOMAIN state.physics_state
    THEN [error |-> "none", value |-> state.physics_state[name]]
    ELSE [error |-> "AttributeError", value |-> NoQuantity]

\* line 131
InitialMonitorState(time) == [k \in {"time"} |-> time]

\* d[key] = value, and d.update(other), on mappings
SetItem(d, key, value) == [k \in DOMAIN d \cup {key} |-> IF k = key THEN value ELSE d[k]]
Update(d, other) ==
    [k \in DOMAIN d \cup DOMAIN other |-> IF k \in DOMAIN other THEN other[k] ELSE d[k]]

EmptyDict == [k \in {} |-> NoQuantity]

\* lines 132-137, from the i-th name on
RECURSIVE RawLoop(_, _, _, _)
RawLoop(ns, i, state, monitor_state) ==
    IF i > Len(ns) THEN [error |-> "none", dict |-> monitor_state]
    ELSE LET found == Lookup(state, ns[i])
         IN IF found.error # "none"
            THEN [error |-> found.error, dict |-> monitor_state]
            ELSE RawLoop(ns, i + 1, state, SetItem(monitor_state, ns[i], found.value))

\* _get_derived_state (lines 142-155), from the i-th derived name on
RECURSIVE DerivedLoop(_, _, _, _, _, _)
DerivedLoop(ds, i, state, assertsOn, output, warnings) ==
    IF i > Len(ds) THEN [error |-> "none", dict |-> output, warned |-> warnings]
    ELSE IF StartsWithPrefix(ds[i])
    THEN LET tracer == StripPrefix(ds[i])
             dycore == state.dycore_state
         IN IF tracer \notin DOMAIN dycore \/ "delp" \notin DOMAIN dycore
            THEN [error |-> "AttributeError", dict |-> output, warned |-> warnings]
            ELSE LET r == ComputeColumnIntegral(ds[i], dycore[tracer], dycore["delp"],
                                                assertsOn)
                 IN IF r.error # "none"
                    THEN [error |-> r.error, dict |-> output, warned |-> warnings]
                    ELSE DerivedLoop(ds, i + 1, state, assertsOn,
                                     SetItem(output, ds[i], r.value), warnings)
    ELSE DerivedLoop(ds, i + 1, state, assertsOn, output, Append(warnings, ds[i]))

GetDerivedState(ds, state, assertsOn) ==
    DerivedLoop(ds, 1, state, assertsOn, EmptyDict, <<>>)

\* the whole of store: the error it raises, the calls the monitor receives
\* and the warnings emitted
StoreOutcome(ns, ds, time, state, assertsOn) ==
    LET raw == RawLoop(ns, 1, state, InitialMonitorState(time))
    IN IF raw.error # "none"
       THEN [error |-> raw.error, calls |-> <<>>, warned |-> <<>>]
       ELSE LET derived == GetDerivedState(ds, state, assertsOn)
            IN IF derived.error # "none"
               THEN [error |-> derived.error, calls |-> <<>>, warned |-> derived.warned]
               ELSE [error |-> "none",
                     calls |-> <<[method |-> "store",
                                  arg |-> Update(raw.dict, derived.dict)]>>,
                     warned |-> derived.warned]

\* the grid sent down the timestep path
StoreGridViaStore(grid) ==
    <<[method |-> "store",
       arg |-> [k \in {"lat", "lon"} |-> IF k = "lat" THEN grid.lat ELSE grid.lon]]>>

\* store_grid (lines 157-162)
StoreGridCalls(grid) ==
    <<[method |-> "store_constant",
       arg |-> [k \in {"lat", "lon"} |-> IF k = "lat" THEN grid.lat ELSE grid.lon]]>>

\* cleanup (lines 164-165)
CleanupCalls == <<[method |-> "cleanup", arg |-> EmptyDict]>>

Methods(cs) == {cs[i].method : i \in 1..Len(cs)}

\* MonitorDiagnostics.__init__ (lines 113-127) with a fresh monitor
NewMonitorDiagnostics ==
    /\ names \in SeqsUpTo(RawNames, MaxNames)
    /\ derived_names \in SeqsUpTo(DerivedNames, MaxNames)
    /\ Len(names) + Len(derived_names) <= MaxNames
    /\ monitorSeen = {}
    /\ calls = <<>>
    /\ warned = <<>>
    /\ last = [op |-> "init", time |-> NoTime, state |-> NoState, grid |-> NoGrid,
               error |-> "none"]

Store(time, state, assertsOn) ==
    LET out == StoreOutcome(names, derived_names, time, state, assertsOn)
    IN /\ calls' = out.calls
       /\ warned' = out.warned
       /\ monitorSeen' = monitorSeen \cup Methods(out.calls)
       /\ last' = [op |-> "store", time |-> time, state |-> state, grid |-> NoGrid,
                   error |-> out.error]
       /\ UNCHANGED <<names, derived_names>>

StoreGrid(grid) ==
    /\ calls' = StoreGridCalls(grid)
    /\ warned' = <<>>
    /\ monitorSeen' = monitorSeen \cup Methods(StoreGridCalls(grid))
    /\ last' = [op |-> "store_grid", time |-> NoTime, state |-> NoState, grid |-> grid,
                error |-> "none"]
    /\ UNCHANGED <<names, derived_names>>

Cleanup ==
    /\ calls' = CleanupCalls
    /\ warned' = <<>>
    /\ monitorSeen' = monitorSeen \cup Methods(CleanupCalls)
    /\ last' = [op |-> "cleanup", time |-> NoTime, state |-> NoState, grid |-> NoGrid,
                error |-> "none"]
    /\ UNCHANGED <<names, derived_names>>

\* the variables of SpecStore while another specification runs
StoreUnused ==
    /\ names = <<>>
    /\ derived_names = <<>>
    /\ monitorSeen = {}
    /\ calls = <<>>
    /\ warned = <<>>
    /\ last = [op |-> "unused", time |-> NoTime, state |-> NoState, grid |-> NoGrid,
               error |-> "none"]

NextStore ==
    \/ \E time \in Times, state \in DriverStates, assertsOn \in BOOLEAN :
          Store(time, state, assertsOn) /\ UNCHANGED <<ciVars, factoryVars, nullLast>>
    \/ \E grid \in Grids : StoreGrid(grid) /\ UNCHANGED <<ciVars, factoryVars, nullLast>>
    \/ Cleanup /\ UNCHANGED <<ciVars, factoryVars, nullLast>>

(***************************************************************************)
(* DiagnosticsConfig (lines 37-107).  Optional[str] is a sequence of at    *)
(* most one string: <<>> is None.                                          *)
(***************************************************************************)
None == <<>>
Paths == {None, <<"/tmp/out">>}
OutputFormats == {"zarr", "netcdf", "hdf5", ""}
TimeChunkSizes == {1, 2}
ConfigNames == {<<>>, <<"u">>, <<"u", "t">>}
ConfigDerivedNames == {<<>>, <<"column_integrated_qv">>}

Configs ==
    [path : Paths, output_format : OutputFormats, time_chunk_size : TimeChunkSizes,
     names : ConfigNames, derived_names : ConfigDerivedNames]

\* a validation that forgets derived_names
PostInitNamesOnly(c) ==
    IF Len(c.names) > 0 /\ c.path = None
    THEN "ValueError"
    ELSE IF c.output_format \notin {"zarr", "netcdf"}
    THEN "ValueError"
    ELSE "none"

\* __post_init__ (lines 59-68): the error construction raises, or "none"
PostInit(c) ==
    IF (Len(c.names) > 0 \/ Len(c.derived_names) > 0) /\ c.path = None
    THEN "ValueError"
    ELSE IF c.output_format \notin {"zarr", "netcdf"}
    THEN "ValueError"
    ELSE "none"

Ranks == 1..NumRanks

NoDiagnostics ==
    [kind |-> "none", monitor |-> "none", names |-> <<>>, derived_names |-> <<>>]
NullDiagnostics ==
    [kind |-> "NullDiagnostics", monitor |-> "none", names |-> <<>>, derived_names |-> <<>>]

\* lines 84-101: the monitor class built for a format, or the error raised
MonitorFor(c) ==
    IF c.output_format = "zarr" THEN [error |-> "none", monitor |-> "ZarrMonitor"]
    ELSE IF c.output_format = "netcdf" THEN [error |-> "none", monitor |-> "NetCDFMonitor"]
    ELSE [error |-> "ValueError", monitor |-> "none"]

\* lines 102-106
MonitorDiagnostics(monitor, c) ==
    [kind |-> "MonitorDiagnostics", monitor |-> monitor, names |-> c.names,
     derived_names |-> c.derived_names]

\* fs.makedirs(self.path) at line 83: fs is the fsspec filesystem of
\* pace.util.get_fs, whose makedirs(path, exist_ok=False) is os.makedirs
\* for a local path; called without exist_ok it is the exclusive create and
\* raises FileExistsError when the directory is already there
Makedirs(exists) == IF exists THEN "FileExistsError" ELSE "none"

InitFactory ==
    /\ cfg = <<>>
    /\ ctor = [called |-> FALSE,
               args |-> [path |-> None, output_format |-> "zarr", time_chunk_size |-> 1,
                         names |-> <<>>, derived_names |-> <<>>],
               error |-> "none"]
    /\ dirExists \in BOOLEAN
    /\ pc = [r \in Ranks |-> "start"]
    /\ sawExists = [r \in Ranks |-> FALSE]
    /\ fsLog = [r \in Ranks |-> <<>>]
    /\ diag = [r \in Ranks |-> NoDiagnostics]
    /\ err = [r \in Ranks |-> "none"]
    /\ nullLast = [rank |-> 0, op |-> "none", error |-> "none"]

\* the variables of Spec while another specification runs
FactoryUnused ==
    /\ cfg = <<>>
    /\ ctor = [called |-> FALSE,
               args |-> [path |-> None, output_format |-> "zarr", time_chunk_size |-> 1,
                         names |-> <<>>, derived_names |-> <<>>],
               error |-> "none"]
    /\ dirExists = FALSE
    /\ pc = [r \in Ranks |-> "unused"]
    /\ sawExists = [r \in Ranks |-> FALSE]
    /\ fsLog = [r \in Ranks |-> <<>>]
    /\ diag = [r \in Ranks |-> NoDiagnostics]
    /\ err = [r \in Ranks |-> "none"]
    /\ nullLast = [rank |-> 0, op |-> "none", error |-> "none"]

\* DiagnosticsConfig(...): the dataclass constructor followed by __post_init__
Construct(c) ==
    /\ cfg = <<>>
    /\ ctor' = [called |-> TRUE, args |-> c, error |-> PostInit(c)]
    /\ cfg' = IF PostInit(c) = "none" THEN <<c>> ELSE cfg
    /\ UNCHANGED <<dirExists, pc, sawExists, fsLog, diag, err, nullLast>>

\* a factory that asks the filesystem before it tests the path
FactoryCheckFsFirst(r) ==
    /\ cfg # <<>>
    /\ pc[r] = "start"
    /\ fsLog' = [fsLog EXCEPT ![r] = Append(@, "exists")]
    /\ IF cfg[1].path = None
       THEN /\ diag' = [diag EXCEPT ![r] = NullDiagnostics]
            /\ pc' = [pc EXCEPT ![r] = "returned"]
            /\ UNCHANGED sawExists
       ELSE /\ sawExists' = [sawExists EXCEPT ![r] = dirExists]
            /\ pc' = [pc EXCEPT ![r] = "checked"]
            /\ UNCHANGED diag
    /\ UNCHANGED <<cfg, ctor, dirExists, err, nullLast>>

\* diagnostics_factory, lines 78-82: the path test and the exists check
FactoryCheck(r) ==
    /\ cfg # <<>>
    /\ pc[r] = "start"
    /\ IF cfg[1].path = None
       THEN /\ diag' = [diag EXCEPT ![r] = NullDiagnostics]
            /\ pc' = [pc EXCEPT ![r] = "returned"]
            /\ UNCHANGED <<sawExists, fsLog>>
       ELSE /\ fsLog' = [fsLog EXCEPT ![r] = Append(@, "exists")]
            /\ sawExists' = [sawExists EXCEPT ![r] = dirExists]
            /\ pc' = [pc EXCEPT ![r] = "checked"]
            /\ UNCHANGED diag
    /\ UNCHANGED <<cfg, ctor, dirExists, err, nullLast>>

\* diagnostics_factory, lines 82-107: makedirs when the check said absent,
\* then the monitor and the MonitorDiagnostics
FactoryCreate(r) ==
    /\ pc[r] = "checked"
    /\ LET made == IF sawExists[r] THEN "none" ELSE Makedirs(dirExists)
           built == MonitorFor(cfg[1])
           raised == IF made # "none" THEN made ELSE built.error
       IN /\ fsLog' = [fsLog EXCEPT ![r] = IF sawExists[r] THEN @ ELSE Append(@, "makedirs")]
          /\ dirExists' = (dirExists \/ ~sawExists[r])
          /\ err' = [err EXCEPT ![r] = raised]
          /\ pc' = [pc EXCEPT ![r] = IF raised = "none" THEN "returned" ELSE "raised"]
          /\ diag' = [diag EXCEPT ![r] = IF raised = "none"
                                         THEN MonitorDiagnostics(built.monitor, cfg[1])
                                         ELSE @]
    /\ UNCHANGED <<cfg, ctor, sawExists, nullLast>>

\* NullDiagnostics.store / store_grid / cleanup (lines 168-178): pass
NullCall(r, op) ==
    /\ diag[r].kind = "NullDiagnostics"
    /\ nullLast' = [rank |-> r, op |-> op, error |-> "none"]
    /\ UNCHANGED factoryVars

NullStore(r, time, state) == NullCall(r, "store")
NullStoreGrid(r, grid) == NullCall(r, "store_grid")
NullCleanup(r) == NullCall(r, "cleanup")

NextFactory ==
    \/ \E c \in Configs : Construct(c) /\ UNCHANGED <<ciVars, storeVars>>
    \/ \E r \in Ranks : FactoryCheck(r) /\ UNCHANGED <<ciVars, storeVars>>
    \/ \E r \in Ranks : FactoryCreate(r) /\ UNCHANGED <<ciVars, storeVars>>
    \/ \E r \in Ranks, time \in Times, state \in DriverStates :
          NullStore(r, time, state) /\ UNCHANGED <<ciVars, storeVars>>
    \/ \E r \in Ranks, grid \in Grids : NullStoreGrid(r, grid) /\ UNCHANGED <<ciVars, storeVars>>
    \/ \E r \in Ranks : NullCleanup(r) /\ UNCHANGED <<ciVars, storeVars>>

(***************************************************************************)
(* Specifications                                                          *)
(***************************************************************************)
InitCI == CIInputs /\ StoreUnused /\ FactoryUnused
InitStore == CIUnused /\ NewMonitorDiagnostics /\ FactoryUnused
Init == CIUnused /\ StoreUnused /\ InitFactory

Next == NextFactory

SpecCI == InitCI /\ [][NextCI]_vars
SpecStore == InitStore /\ [][NextStore]_vars
Spec == Init /\ [][Next]_vars

(***************************************************************************)
(* Claims                                                                  *)
(***************************************************************************)
Range(s) == {s[i] : i \in 1..Len(s)}

\* the names of DerivedNames and RawNames that begin with "column_integrated_"
ColumnIntegratedNames == {"column_integrated_qv", "column_integrated_"}
TracerNamed(d) == IF d = "column_integrated_qv" THEN "qv" ELSE ""

HasAttr(state, n) == n \in DOMAIN state.dycore_state \/ n \in DOMAIN state.physics_state

Refused(q) == Len(q.dims) <= 2 \/ q.dims[3] # Z_DIM

\* derived_names[i] asks for the column integral of a tracer the dycore
\* state has, next to a delp
ReachesIntegral(state, d) ==
    /\ d \in ColumnIntegratedNames
    /\ TracerNamed(d) \in DOMAIN state.dycore_state
    /\ "delp" \in DOMAIN state.dycore_state

\* nothing the store call needs is missing or refused
NothingFails(state) ==
    /\ \A n \in Range(names) : HasAttr(state, n)
    /\ \A d \in Range(derived_names) \cap ColumnIntegratedNames :
          /\ ReachesIntegral(state, d)
          /\ ~Refused(state.dycore_state[TracerNamed(d)])

StoredOnce == Len(calls) = 1 /\ calls[1].method = "store"

\* C1: a store call that returns normally invokes the monitor's store exactly
\* once, and nothing else, with a mapping whose keys are "time", every name
\* of `names` and every derived name starting with "column_integrated_", and
\* whose "time" entry is the time argument.
C1_StoreForwardsOneRecord ==
    (last.op = "store" /\ last.error = "none") =>
        /\ StoredOnce
        /\ DOMAIN calls[1].arg =
              {"time"} \cup Range(names) \cup (Range(derived_names) \cap ColumnIntegratedNames)
        /\ calls[1].arg["time"] = last.time

\* C5: each name of `names` is stored with the dycore_state attribute when
\* dycore_state has it, otherwise with the physics_state attribute; a name on
\* neither makes store fail with the lookup error and the monitor gets nothing.
C5_Missing ==
    (last.op = "store" /\ \E n \in Range(names) : ~HasAttr(last.state, n)) =>
        /\ last.error = "AttributeError"
        /\ calls = <<>>

C5_ValueOf(n) ==
    IF n \in DOMAIN last.state.dycore_state
    THEN last.state.dycore_state[n]
    ELSE last.state.physics_state[n]

\* C5 as stated: every name of `names` is stored with its dycore-first value
C5_DycoreThenPhysics ==
    /\ C5_Missing
    /\ (last.op = "store" /\ last.error = "none") =>
          \A n \in Range(names) : calls[1].arg[n] = C5_ValueOf(n)

\* C5 as amended: the same, for the names that are not also derived names
\* starting with "column_integrated_"; such a name carries the column integral.
C5_DycoreThenPhysicsUnlessDerived ==
    /\ C5_Missing
    /\ (last.op = "store" /\ last.error = "none") =>
          \A n \in Range(names) :
              IF n \in Range(derived_names) \cap ColumnIntegratedNames
              THEN /\ calls[1].arg[n].units = "kg/m**2"
                   /\ calls[1].arg[n].dims = <<X_DIM, Y_DIM>>
              ELSE calls[1].arg[n] = C5_ValueOf(n)

C5_Witness ==
    /\ last.op = "store"
    /\ last.error = "none"
    /\ names = <<"u", "t">>
    /\ "u" \in DOMAIN last.state.dycore_state
    /\ "u" \in DOMAIN last.state.physics_state
    /\ calls[1].arg["u"] = last.state.dycore_state["u"]
    /\ calls[1].arg["u"] # last.state.physics_state["u"]
    /\ calls[1].arg["t"] = last.state.physics_state["t"]

\* C6: a derived name that does not start with "column_integrated_" is warned
\* about, gets no entry and raises nothing; the store call still forwards its
\* record, without that name.
C6_Warned ==
    (last.op = "store" /\ NothingFails(last.state)) =>
        /\ last.error = "none"
        /\ StoredOnce
        /\ Range(warned) = Range(derived_names) \ ColumnIntegratedNames

RefusalErrors == {"AssertionError", "IndexError", "NotImplementedError"}

C8_RefusedAt(i) ==
    /\ ReachesIntegral(last.state, derived_names[i])
    /\ Refused(last.state.dycore_state[TracerNamed(derived_names[i])])

\* C8: a refused tracer makes store raise and leaves the monitor without a record
C8_RefusalPropagates ==
    last.op = "store" =>
        \A i \in 1..Len(derived_names) :
            C8_RefusedAt(i) =>
                /\ last.error # "none"
                /\ calls = <<>>
                /\ ((\A n \in Range(names) : HasAttr(last.state, n))
                     /\ (\A j \in 1..(i - 1) : derived_names[j] \notin ColumnIntegratedNames))
                    => last.error \in RefusalErrors

C8_Witness ==
    /\ last.op = "store"
    /\ names = <<"u">>
    /\ derived_names = <<"column_integrated_qv">>
    /\ "qv" \in DOMAIN last.state.dycore_state
    /\ last.state.dycore_state["qv"].dims = <<Z_DIM, Y_DIM, X_DIM>>
    /\ last.error = "NotImplementedError"
    /\ calls = <<>>

\* C9: store and store_grid are independent: neither fails because of the
\* other, whatever was called before; store_grid forwards exactly
\* {"lat": grid.lat, "lon": grid.lon} to store_constant and never to store,
\* and store never invokes store_constant.
C9_IndependentChannels ==
    /\ last.op = "store_grid" =>
          /\ last.error = "none"
          /\ Len(calls) = 1
          /\ calls[1].method = "store_constant"
          /\ DOMAIN calls[1].arg = {"lat", "lon"}
          /\ calls[1].arg["lat"] = last.grid.lat
          /\ calls[1].arg["lon"] = last.grid.lon
    /\ last.op = "store" =>
          /\ "store_constant" \notin Methods(calls)
          /\ NothingFails(last.state) => (last.error = "none" /\ StoredOnce)

C9_Witness ==
    /\ last.op = "store"
    /\ last.error = "none"
    /\ StoredOnce
    /\ "store_constant" \notin monitorSeen

\* C7: a 3-D tracer with the vertical axis at index 2 integrates, at every
\* horizontal point, to the sum over the vertical window of tracer * delp,
\* in kg/m**2; constant fills c and d over an extent Z give c*d*Z.
RECURSIVE WindowSum(_, _, _, _)
WindowSum(i, j, k, hi) ==
    IF k >= hi THEN 0
    ELSE q_in.data[<<i, j, k>>] * delp.data[<<i, j, k>>] + WindowSum(i, j, k + 1, hi)

Accepted3D == Len(q_in.dims) = 3 /\ q_in.dims[3] = Z_DIM

\* C7: the result is the window sum at every horizontal point, c*d*Z for
\* constant fills, in kg/m**2
C7_ColumnIntegralIsWindowSum ==
    (ciPc = "done" /\ Accepted3D) =>
        /\ ci.error = "none"
        /\ ci.value.units = "kg/m**2"
        /\ \A i \in 0..(q_in.shape[1] - 1), j \in 0..(q_in.shape[2] - 1) :
              /\ ci.value.data[<<i, j>>] =
                    WindowSum(i, j, q_in.origin[3], q_in.origin[3] + q_in.extent[3])
              /\ \A c \in TracerValues, d \in DelpValues :
                    (/\ \A idx \in DOMAIN q_in.data : q_in.data[idx] = c
                     /\ \A idx \in DOMAIN delp.data : delp.data[idx] = d)
                    => ci.value.data[<<i, j>>] = c * d * q_in.extent[3]

C7_Witness ==
    /\ ciPc = "done"
    /\ Accepted3D
    /\ q_in.origin[3] = 1
    /\ q_in.extent[3] = MaxZ - 1
    /\ \A idx \in DOMAIN q_in.data : q_in.data[idx] = 3
    /\ \A idx \in DOMAIN delp.data : delp.data[idx] = 2
    /\ \A idx \in DOMAIN ci.value.data : ci.value.data[idx] = 6 * (MaxZ - 1)

\* C10: every accepted tracer (more than 2 dims, vertical axis at index 2,
\* 4-D included) yields a Quantity whose dims are the input dims without
\* axis 2 and whose dims, origin and extent have the same length.
C10_ResultQuantityConsistent ==
    (ciPc = "done" /\ Len(q_in.dims) > 2 /\ q_in.dims[3] = Z_DIM) =>
        /\ ci.error = "none"
        /\ ci.value.dims = RemoveAt(q_in.dims, 3)
        /\ QuantityConsistent(ci.value)

\* C2: construction raises ValueError whenever names or derived_names is
\* non-empty with path None, or output_format is neither "zarr" nor "netcdf";
\* no DiagnosticsConfig violating either condition exists.
C2_Violates(c) ==
    \/ (c.names # <<>> \/ c.derived_names # <<>>) /\ c.path = None
    \/ c.output_format \notin {"zarr", "netcdf"}

\* C2: a violating constructor call raises ValueError and leaves no config
C2_InvalidConfigRejected ==
    /\ (ctor.called /\ C2_Violates(ctor.args)) => (ctor.error = "ValueError" /\ cfg = <<>>)
    /\ cfg # <<>> => ~C2_Violates(cfg[1])

C2_Witness ==
    /\ ctor.called
    /\ ctor.error = "ValueError"
    /\ ctor.args.names = <<>>
    /\ ctor.args.derived_names = <<"column_integrated_qv">>
    /\ ctor.args.path = None
    /\ ctor.args.output_format = "netcdf"

\* C3: with path None the factory returns a NullDiagnostics, makes no
\* filesystem call and builds no monitor; every store, store_grid and cleanup
\* on it completes without error and changes nothing.
C3_NullFactory ==
    \A r \in Ranks :
        (cfg # <<>> /\ cfg[1].path = None) =>
            /\ fsLog[r] = <<>>
            /\ err[r] = "none"
            /\ pc[r] \in {"start", "returned"}
            /\ pc[r] = "returned" => diag[r] = NullDiagnostics
            /\ diag[r].monitor = "none"

C3_NullCallStep ==
    nullLast' # nullLast =>
        /\ cfg # <<>> /\ cfg[1].path = None
        /\ nullLast'.error = "none"
        /\ UNCHANGED factoryVars

\* C3: the factory invariant in every state, the no-op step in every step
C3_NullDiagnosticsNoOp == []C3_NullFactory /\ [][C3_NullCallStep]_vars

C3_Witness ==
    /\ cfg # <<>>
    /\ cfg[1].path = None
    /\ \A r \in Ranks : diag[r] = NullDiagnostics /\ fsLog[r] = <<>>
    /\ nullLast.op = "cleanup"
    /\ nullLast.error = "none"
    /\ ~dirExists

\* C4: ranks calling the factory concurrently on a path whose directory does
\* not exist yet: under every interleaving no rank fails because another
\* created the directory first, and the directory exists once every rank is
\* past the creation step.
C4_ConcurrentCreationSafe ==
    /\ \A r \in Ranks : err[r] # "FileExistsError"
    /\ (cfg # <<>> /\ cfg[1].path # None /\ \A r \in Ranks : pc[r] = "returned") => dirExists

====
